---------------------------- MODULE Spec2Model ----------------------------
(***************************************************************************)
(* Model of plugins/modules/resource_limit.py: one invocation of the       *)
(* module reconciles the limit of one (resource type, scope) tuple on a    *)
(* CloudStack platform.  The platform's store, the scope directory and the *)
(* helpers of the base class AnsibleCloudStack are the environment of the  *)
(* module; the module's own functions are translated line by line.         *)
(***************************************************************************)
EXTENDS Integers, Sequences, FiniteSets, TLC

(***************************************************************************)
(* Python values.  None is NoneVal where the other values are strings; an  *)
(* optional integer is the empty sequence (None) or a one-element sequence.*)
(***************************************************************************)
NoneVal == "None"
Nil == <<>>
Some(x) == <<x>>

\* ------------------------------------------------------------------ bounds
\* Invocations one caller makes in a run of the model.
MaxInvocations == 2

\* The callers; Spec lets the first one invoke the module again and again.
Procs == {1, 2}
Invokers == {1}

\* ------------------------------------------------------------ RESOURCE_TYPES
RESOURCE_TYPES_dup ==
    [instance |-> 0, ip_address |-> 1, volume |-> 2, snapshot |-> 3,
     template |-> 4, network |-> 4, vpc |-> 7, cpu |-> 8, memory |-> 9,
     primary_storage |-> 10, secondary_storage |-> 11]

RESOURCE_TYPES ==
    [instance |-> 0, ip_address |-> 1, volume |-> 2, snapshot |-> 3,
     template |-> 4, network |-> 6, vpc |-> 7, cpu |-> 8, memory |-> 9,
     primary_storage |-> 10, secondary_storage |-> 11]

\* choices=list(RESOURCE_TYPES.keys())
Choices == DOMAIN RESOURCE_TYPES

\* RESOURCE_TYPES.get(resource_type): None for a name that is no key.
get_resource_type(prm) ==
    IF prm.resource_type \in DOMAIN RESOURCE_TYPES
    THEN Some(RESOURCE_TYPES[prm.resource_type])
    ELSE Nil

\* ------------------------------------------------------------- the inputs
InputTypes == {"instance", "memory"}
\* limit: not supplied (the default applies), or an integer.
LimitInputs == {Nil, Some(-2), Some(10)}
\* (domain, account, project) as the caller names them.
ScopeInputs ==
    { [domain |-> NoneVal,          account |-> NoneVal,   project |-> NoneVal],
      [domain |-> "customers",      account |-> NoneVal,   project |-> NoneVal],
      [domain |-> "customers",      account |-> "moserre", project |-> NoneVal],
      [domain |-> NoneVal,          account |-> NoneVal,   project |-> "proj1"],
      [domain |-> "unknown-domain", account |-> NoneVal,   project |-> NoneVal],
      [domain |-> "customers",      account |-> "ghost",   project |-> NoneVal],
      [domain |-> NoneVal,          account |-> NoneVal,   project |-> "ghost-project"] }

ParamsOf(types) ==
    { [resource_type |-> t, limit |-> l, domain |-> s.domain,
       account |-> s.account, project |-> s.project, check_mode |-> c] :
        t \in types, l \in LimitInputs, s \in ScopeInputs, c \in BOOLEAN }

Params == ParamsOf(InputTypes)

\* ---------------------------------------------------- the scope directory
\* What the platform knows: the domains and projects with their ids, and the
\* accounts of each domain.
DomainIds == [customers |-> "dom-1"]
ProjectIds == [proj1 |-> "prj-1"]
Accounts == { <<"customers", "moserre">> }

get_account(prm) ==
    IF prm.account = NoneVal THEN [ok |-> TRUE, value |-> NoneVal]
    ELSE IF <<prm.domain, prm.account>> \in Accounts
         THEN [ok |-> TRUE, value |-> prm.account]
         ELSE [ok |-> FALSE, value |-> prm.account]

get_domain(prm) ==
    IF prm.domain = NoneVal THEN [ok |-> TRUE, value |-> NoneVal]
    ELSE IF prm.domain \in DOMAIN DomainIds
         THEN [ok |-> TRUE, value |-> DomainIds[prm.domain]]
         ELSE [ok |-> FALSE, value |-> prm.domain]

get_project(prm) ==
    IF prm.project = NoneVal THEN [ok |-> TRUE, value |-> NoneVal]
    ELSE IF prm.project \in DOMAIN ProjectIds
         THEN [ok |-> TRUE, value |-> ProjectIds[prm.project]]
         ELSE [ok |-> FALSE, value |-> prm.project]

\* The three lookups of an args literal, in the order Python evaluates them:
\* the first that fails ends the invocation.
ScopeResolves(prm) ==
    get_account(prm).ok /\ get_domain(prm).ok /\ get_project(prm).ok

Unresolved(prm) ==
    IF ~get_account(prm).ok THEN get_account(prm).value
    ELSE IF ~get_domain(prm).ok THEN get_domain(prm).value
    ELSE get_project(prm).value


\* ------------------------------------------------------ values on the wire
\* The platform's JSON carries a number as an integer or as a decimal string.
DigitChars == <<"0", "1", "2", "3", "4", "5", "6", "7", "8", "9">>
DigitVal(c) == CHOOSE d \in 0..9 : DigitChars[d + 1] = c

RECURSIVE NatStr(_)
NatStr(n) ==
    IF n < 10 THEN <<DigitChars[n + 1]>>
    ELSE NatStr(n \div 10) \o <<DigitChars[(n % 10) + 1]>>

IntStr(n) == IF n < 0 THEN <<"-">> \o NatStr(-n) ELSE NatStr(n)

RECURSIVE ParseNat(_)
ParseNat(s) ==
    IF Len(s) = 0 THEN 0
    ELSE ParseNat(SubSeq(s, 1, Len(s) - 1)) * 10 + DigitVal(s[Len(s)])

JsonNumber(n, asString) ==
    IF asString THEN [t |-> "str", s |-> IntStr(n)] ELSE [t |-> "int", v |-> n]

\* Python's int() of a JSON scalar.
pyint(x) ==
    IF x.t = "int" THEN x.v
    ELSE IF Head(x.s) = "-" THEN 0 - ParseNat(Tail(x.s))
    ELSE ParseNat(x.s)

\* How the platform writes a record: with or without a "limit" field beside
\* "max", its numbers as integers or as strings.
Shapes == [limitKey : BOOLEAN, asString : BOOLEAN]

\* ------------------------------------------------------------ the platform
ResolvedScope(prm) ==
    [account |-> get_account(prm).value, domainid |-> get_domain(prm).value,
     projectid |-> get_project(prm).value]

Key(a) == <<a.resourcetype[1], a.domainid, a.account, a.projectid>>

\* Every (resource type, scope) tuple the platform keeps a limit for.
Tuples ==
    { <<RESOURCE_TYPES[t], ResolvedScope(prm).domainid,
        ResolvedScope(prm).account, ResolvedScope(prm).projectid>> :
        t \in Choices, prm \in { q \in ParamsOf({"instance"}) : ScopeResolves(q) } }

\* The tuples the platform has no limit record for.
Unlisted == { <<RESOURCE_TYPES["instance"], NoneVal, NoneVal, "prj-1">> }
InitLimits == {-1, 10}

Record(a, lim, shape) ==
    IF shape.limitKey
    THEN [account |-> a.account, domainid |-> a.domainid,
          projectid |-> a.projectid, resourcetype |-> a.resourcetype[1],
          max |-> JsonNumber(lim, shape.asString),
          limit |-> JsonNumber(lim, shape.asString)]
    ELSE [account |-> a.account, domainid |-> a.domainid,
          projectid |-> a.projectid, resourcetype |-> a.resourcetype[1],
          max |-> JsonNumber(lim, shape.asString)]

\* listResourceLimits: the records matching the filter, none or one.
listResourceLimits(rem, a, shape) ==
    IF rem[Key(a)] = Nil THEN <<>>
    ELSE << Record(a, rem[Key(a)][1], shape) >>

\* updateResourceLimit: the store after the write, and the response.
updateResourceLimit(rem, a, shape) ==
    [store |-> [rem EXCEPT ![Key(a)] = Some(a.max)],
     resourcelimit |-> Record(a, a.max, shape)]

\* --------------------------------------------- AnsibleCloudStackResourceLimit
LimitParam_zero(prm) == IF prm.limit = Nil THEN 0 ELSE prm.limit[1]

\* limit=dict(default=-1, ...): the default stands in for a limit not supplied.
LimitParam(prm) == IF prm.limit = Nil THEN -1 ELSE prm.limit[1]

UpdateArgs_default(prm) ==
    [account |-> get_account(prm).value, domainid |-> get_domain(prm).value,
     projectid |-> get_project(prm).value,
     resourcetype |-> get_resource_type(prm), max |-> -1]

UpdateArgs_instance(prm) ==
    [account |-> get_account(prm).value, domainid |-> get_domain(prm).value,
     projectid |-> get_project(prm).value,
     resourcetype |-> Some(RESOURCE_TYPES["instance"]), max |-> LimitParam(prm)]

UpdateArgs_global(prm) ==
    [account |-> NoneVal, domainid |-> NoneVal, projectid |-> NoneVal,
     resourcetype |-> get_resource_type(prm), max |-> LimitParam(prm)]

\* The args of update_resource_limit.
UpdateArgs(prm) ==
    [account |-> get_account(prm).value, domainid |-> get_domain(prm).value,
     projectid |-> get_project(prm).value,
     resourcetype |-> get_resource_type(prm), max |-> LimitParam(prm)]

get_resource_limit_first(response) ==
    IF response # <<>>
    THEN [ok |-> TRUE, error |-> "none", record |-> response[1]]
    ELSE [ok |-> TRUE, error |-> "none",
          record |-> [max |-> JsonNumber(-1, FALSE)]]

\* get_resource_limit after its query: the one record; int() of the record
\* itself (a dict) when it has a "limit" field, which raises TypeError; the
\* not-found failure on an empty response.
get_resource_limit(response) ==
    IF response # <<>>
    THEN IF "limit" \in DOMAIN response[1]
         THEN [ok |-> FALSE, error |-> "TypeError"]
         ELSE [ok |-> TRUE, error |-> "none", record |-> response[1]]
    ELSE [ok |-> FALSE, error |-> "LimitNotFoundError"]

has_changed_scope(want, current) ==
    want.max # pyint(current.max) \/ want.account # NoneVal

\* The change detector of the base class: the desired limit against the
\* record's, both as integers.
has_changed(want, current) == want.max # pyint(current.max)

Verdict_always(prm, record) ==
    IF ~prm.check_mode THEN "Changed" ELSE "WouldChange"

Verdict_nocheck(prm, record) ==
    IF has_changed(UpdateArgs(prm), record) THEN "Changed" ELSE "Unchanged"

\* The branches of update_resource_limit.
Verdict(prm, record) ==
    IF has_changed(UpdateArgs(prm), record)
    THEN IF ~prm.check_mode THEN "Changed" ELSE "WouldChange"
    ELSE "Unchanged"

MarkChanged_skip(res) == res

\* self.result["changed"] = True
MarkChanged(res) == [res EXCEPT !.changed = TRUE]

\* get_result of the base class: the result so far plus the record's fields
\* under their reported names (self.returns: "max" is reported as "limit").
base_get_result(res, resource) ==
    [changed |-> res.changed, limit |-> resource.max,
     account |-> resource.account]

get_result_desired(res, resource, prm) ==
    [resource_type |-> prm.resource_type,
     limit |-> JsonNumber(LimitParam(prm), FALSE)]
        @@ base_get_result(res, resource)

get_result(res, resource, prm) ==
    [resource_type |-> prm.resource_type] @@ base_get_result(res, resource)

\* ------------------------------------------------------------------ state
VARIABLES
    remote,          \* the platform's store: tuple -> limit (Nil: no record)
    params,          \* module.params and check_mode of each caller
    pc,              \* the stage each invocation is in
    args,            \* the request arguments resolved so far
    listed,          \* the response of the listResourceLimits query
    resource_limit,  \* the record update_resource_limit holds
    verdict,         \* the branch update_resource_limit took
    result,          \* self.result
    calls,           \* the remote calls issued in this invocation, in order
    error,           \* what the invocation failed with
    prev,            \* outcome of the run before, when this one repeats it
    invocations,     \* invocations started by each caller
    remote0          \* the platform's store when each invocation started

vars == <<remote, params, pc, args, listed, resource_limit, verdict, result,
          calls, error, prev, invocations, remote0>>

NoError == [kind |-> "none", name |-> NoneVal]
Terminal == {"Reported", "Failed"}

InitRemote ==
    { [t \in Tuples |-> IF t \in Unlisted THEN Nil ELSE Some(l0)] :
        l0 \in InitLimits }

Init ==
    /\ remote \in InitRemote
    /\ params = [p \in Procs |-> Nil]
    /\ pc = [p \in Procs |-> "Idle"]
    /\ args = [p \in Procs |-> Nil]
    /\ listed = [p \in Procs |-> Nil]
    /\ resource_limit = [p \in Procs |-> Nil]
    /\ verdict = [p \in Procs |-> "none"]
    /\ result = [p \in Procs |-> [changed |-> FALSE]]
    /\ calls = [p \in Procs |-> <<>>]
    /\ error = [p \in Procs |-> NoError]
    /\ prev = [p \in Procs |-> Nil]
    /\ invocations = [p \in Procs |-> 0]
    /\ remote0 = [p \in Procs |-> remote]

\* A fresh run: the constructor's state (self.result = {changed: False}).
Begin(p, prm) ==
    /\ params' = [params EXCEPT ![p] = prm]
    /\ pc' = [pc EXCEPT ![p] = "Start"]
    /\ args' = [args EXCEPT ![p] = Nil]
    /\ listed' = [listed EXCEPT ![p] = Nil]
    /\ resource_limit' = [resource_limit EXCEPT ![p] = Nil]
    /\ verdict' = [verdict EXCEPT ![p] = "none"]
    /\ result' = [result EXCEPT ![p] = [changed |-> FALSE]]
    /\ calls' = [calls EXCEPT ![p] = <<>>]
    /\ error' = [error EXCEPT ![p] = NoError]
    /\ invocations' = [invocations EXCEPT ![p] = @ + 1]
    /\ remote0' = [remote0 EXCEPT ![p] = remote]
    /\ UNCHANGED remote

\* main(): the module is run with some parameters.
Invoke(p) ==
    /\ pc[p] \in {"Idle"} \cup Terminal
    /\ invocations[p] < MaxInvocations
    /\ \E prm \in Params : Begin(p, prm)
    /\ prev' = [prev EXCEPT ![p] = Nil]

\* main() again, with the arguments of the run that just ended.
Reinvoke(p) ==
    /\ pc[p] \in Terminal
    /\ invocations[p] < MaxInvocations
    /\ Begin(p, params[p])
    /\ prev' = [prev EXCEPT ![p] =
                  Some([outcome |-> pc[p], changed |-> result[p].changed])]

Fail_retry(p, kind, name) ==
    /\ pc' = [pc EXCEPT ![p] =
                IF kind = "TransportError" THEN "TypeMapped" ELSE "Failed"]
    /\ error' = [error EXCEPT ![p] = [kind |-> kind, name |-> name]]

Fail_swallow(p, kind, name) ==
    /\ pc' = [pc EXCEPT ![p] = "Unchanged"]
    /\ error' = [error EXCEPT ![p] = [kind |-> kind, name |-> name]]

Fail(p, kind, name) ==
    /\ pc' = [pc EXCEPT ![p] = "Failed"]
    /\ error' = [error EXCEPT ![p] = [kind |-> kind, name |-> name]]

ResolveScope_ignore(p) ==
    /\ pc[p] = "Start"
    /\ args' = [args EXCEPT ![p] = ResolvedScope(params[p])]
    /\ pc' = [pc EXCEPT ![p] = "ScopeResolved"]
    /\ UNCHANGED <<remote, params, listed, resource_limit, verdict, result,
                   calls, error, prev, invocations, remote0>>

\* The scope lookups of get_resource_limit's args.
ResolveScope(p) ==
    /\ pc[p] = "Start"
    /\ \/ /\ ScopeResolves(params[p])
          /\ args' = [args EXCEPT ![p] = ResolvedScope(params[p])]
          /\ pc' = [pc EXCEPT ![p] = "ScopeResolved"]
          /\ UNCHANGED error
       \/ /\ ~ScopeResolves(params[p])
          /\ Fail(p, "ScopeResolutionError", Unresolved(params[p]))
          /\ UNCHANGED args
    /\ UNCHANGED <<remote, params, listed, resource_limit, verdict, result,
                   calls, prev, invocations, remote0>>

\* get_resource_type() of get_resource_limit's args.
MapType(p) ==
    /\ pc[p] = "ScopeResolved"
    /\ args' = [args EXCEPT ![p] =
                  [account |-> args[p].account, domainid |-> args[p].domainid,
                   projectid |-> args[p].projectid,
                   resourcetype |-> get_resource_type(params[p])]]
    /\ pc' = [pc EXCEPT ![p] = "TypeMapped"]
    /\ UNCHANGED <<remote, params, listed, resource_limit, verdict, result,
                   calls, error, prev, invocations, remote0>>

\* The listResourceLimits query and the rest of get_resource_limit.
FetchLimit(p) ==
    /\ pc[p] = "TypeMapped"
    /\ calls' = [calls EXCEPT ![p] =
                   Append(@, [cmd |-> "listResourceLimits", args |-> args[p]])]
    /\ \/ /\ Fail(p, "TransportError", NoneVal)
          /\ UNCHANGED <<listed, resource_limit>>
       \/ \E shape \in Shapes :
            LET response == listResourceLimits(remote, args[p], shape)
                out == get_resource_limit(response)
            IN /\ listed' = [listed EXCEPT ![p] = Some(response)]
               /\ IF out.ok
                  THEN /\ resource_limit' =
                            [resource_limit EXCEPT ![p] = out.record]
                       /\ pc' = [pc EXCEPT ![p] = "CurrentStateFetched"]
                       /\ UNCHANGED error
                  ELSE /\ Fail(p, out.error, params[p].resource_type)
                       /\ UNCHANGED resource_limit
    /\ UNCHANGED <<remote, params, args, verdict, result, prev, invocations,
                   remote0>>

\* update_resource_limit after its read: the args, has_changed and, outside
\* check mode, the updateResourceLimit call.
Reconcile(p) ==
    /\ pc[p] = "CurrentStateFetched"
    /\ LET a == UpdateArgs(params[p])
           v == Verdict(params[p], resource_limit[p])
       IN /\ args' = [args EXCEPT ![p] = a]
          /\ \/ /\ v = "Unchanged"
                /\ pc' = [pc EXCEPT ![p] = "Unchanged"]
                /\ verdict' = [verdict EXCEPT ![p] = "Unchanged"]
                /\ UNCHANGED <<remote, resource_limit, result, calls, error>>
             \/ /\ v = "WouldChange"
                /\ pc' = [pc EXCEPT ![p] = "WouldChange"]
                /\ verdict' = [verdict EXCEPT ![p] = "WouldChange"]
                /\ result' = [result EXCEPT ![p] = MarkChanged(result[p])]
                /\ UNCHANGED <<remote, resource_limit, calls, error>>
             \/ /\ v = "Changed"
                /\ result' = [result EXCEPT ![p] = MarkChanged(result[p])]
                /\ verdict' = [verdict EXCEPT ![p] = "Changed"]
                /\ calls' = [calls EXCEPT ![p] =
                               Append(@, [cmd |-> "updateResourceLimit",
                                          args |-> a])]
                /\ \/ \E shape \in Shapes :
                        LET res == updateResourceLimit(remote, a, shape)
                        IN /\ remote' = res.store
                           /\ resource_limit' =
                                [resource_limit EXCEPT ![p] = res.resourcelimit]
                           /\ pc' = [pc EXCEPT ![p] = "Changed"]
                           /\ UNCHANGED error
                   \/ /\ Fail(p, "TransportError", NoneVal)
                      /\ UNCHANGED <<remote, resource_limit>>
    /\ UNCHANGED <<params, listed, prev, invocations, remote0>>

\* get_result and exit_json.
Report(p) ==
    /\ pc[p] \in {"Unchanged", "WouldChange", "Changed"}
    /\ result' = [result EXCEPT ![p] =
                    get_result(result[p], resource_limit[p], params[p])]
    /\ pc' = [pc EXCEPT ![p] = "Reported"]
    /\ UNCHANGED <<remote, params, args, listed, resource_limit, verdict,
                   calls, error, prev, invocations, remote0>>

Step(p) ==
    \/ Invoke(p)
    \/ Reinvoke(p)
    \/ ResolveScope(p)
    \/ MapType(p)
    \/ FetchLimit(p)
    \/ Reconcile(p)
    \/ Report(p)

Next == \E p \in Invokers : Step(p)

Spec == Init /\ [][Next]_vars

\* Two callers, each constructed with a resource type of the whole choice
\* list, resolve their scope and map their type.
MapperParams ==
    { prm \in ParamsOf(Choices) :
        /\ prm.limit = Nil
        /\ ~prm.check_mode
        /\ prm.account = NoneVal
        /\ prm.project = NoneVal
        /\ prm.domain \in {"customers", "unknown-domain"} }

InitMapper ==
    /\ remote \in InitRemote
    /\ params \in [Procs -> MapperParams]
    /\ pc = [p \in Procs |-> "Start"]
    /\ args = [p \in Procs |-> Nil]
    /\ listed = [p \in Procs |-> Nil]
    /\ resource_limit = [p \in Procs |-> Nil]
    /\ verdict = [p \in Procs |-> "none"]
    /\ result = [p \in Procs |-> [changed |-> FALSE]]
    /\ calls = [p \in Procs |-> <<>>]
    /\ error = [p \in Procs |-> NoError]
    /\ prev = [p \in Procs |-> Nil]
    /\ invocations = [p \in Procs |-> 1]
    /\ remote0 = [p \in Procs |-> remote]

NextMapper == \E p \in Procs : ResolveScope(p) \/ MapType(p)

SpecMapper == InitMapper /\ [][NextMapper]_vars

\* ----------------------------------------------------------------- claims
ListCalls(p) == SelectSeq(calls[p], LAMBDA c : c.cmd = "listResourceLimits")
UpdateCalls(p) == SelectSeq(calls[p], LAMBDA c : c.cmd = "updateResourceLimit")

\* The stages after has_changed gave its verdict.
PostVerdict == {"Unchanged", "WouldChange", "Changed", "Reported"}

\* The tuple the invocation read, and the limit the platform held for it when
\* the invocation started.
ReadKey(p) == Key(calls[p][1].args)
StoredLimit(p) == remote0[p][ReadKey(p)][1]
Desired(p) == IF params[p].limit = Nil THEN -1 ELSE params[p].limit[1]
Differs(p) == Desired(p) # StoredLimit(p)

\* C1: when a caller repeats a reported, non-dry-run invocation with the same
\* arguments, the second run issues no updateResourceLimit call and its
\* changed flag stays false, so changed=true is reported at most once.
C1_Idempotence ==
    \A p \in Procs :
        (/\ prev[p] # Nil
         /\ prev[p][1].outcome = "Reported"
         /\ ~params[p].check_mode)
        => /\ UpdateCalls(p) = <<>>
           /\ ~result[p].changed
           /\ remote = remote0[p]

C1_Witness ==
    \E p \in Procs :
        /\ prev[p] # Nil
        /\ prev[p][1].outcome = "Reported"
        /\ prev[p][1].changed
        /\ ~params[p].check_mode
        /\ pc[p] = "Reported"
        /\ ~result[p].changed

\* C2: in check mode no updateResourceLimit call is issued and the platform's
\* store stays what it was when the invocation started; when the desired
\* limit differs from the stored one, changed=true is reported.
C2_DryRun ==
    \A p \in Procs :
        (pc[p] # "Idle" /\ params[p].check_mode)
        => /\ UpdateCalls(p) = <<>>
           /\ remote = remote0[p]
           /\ (pc[p] \in PostVerdict /\ Differs(p))
              => (result[p].changed /\ verdict[p] = "WouldChange")

C2_Witness ==
    \E p \in Procs :
        /\ pc[p] = "Reported"
        /\ params[p].check_mode
        /\ Differs(p)
        /\ result[p].changed
        /\ remote[ReadKey(p)] = Some(StoredLimit(p))

\* C3: outside check mode, when the desired limit differs from the fetched
\* one, exactly one updateResourceLimit call is issued, for the tuple that
\* was read and with max the desired limit; changed is true, the record held
\* is the platform's response, and the stored and the reported limit are the
\* desired one.
C3_Convergence ==
    \A p \in Procs :
        (pc[p] \in PostVerdict /\ ~params[p].check_mode /\ Differs(p))
        => /\ Len(UpdateCalls(p)) = 1
           /\ Key(UpdateCalls(p)[1].args) = ReadKey(p)
           /\ UpdateCalls(p)[1].args.max = Desired(p)
           /\ result[p].changed
           /\ \E shape \in Shapes :
                resource_limit[p] =
                    Record(calls[p][1].args, Desired(p), shape)
           /\ remote[ReadKey(p)] = Some(Desired(p))
           /\ pc[p] = "Reported"
              => result[p].limit \in
                    { JsonNumber(Desired(p), b) : b \in BOOLEAN }

C3_Witness ==
    \E p \in Procs :
        /\ pc[p] = "Reported"
        /\ ~params[p].check_mode
        /\ Differs(p)
        /\ result[p].changed
        /\ Len(UpdateCalls(p)) = 1

\* C4: when the fetched limit equals the desired one, no updateResourceLimit
\* call is issued, the record held is the fetched record, changed is false,
\* the store is untouched and the reported limit is the existing limit.
C4_NoOp ==
    \A p \in Procs :
        (pc[p] \in PostVerdict /\ ~Differs(p))
        => /\ UpdateCalls(p) = <<>>
           /\ resource_limit[p] = listed[p][1][1]
           /\ ~result[p].changed
           /\ remote = remote0[p]
           /\ pc[p] = "Reported"
              => result[p].limit \in
                    { JsonNumber(StoredLimit(p), b) : b \in BOOLEAN }

C4_Witness ==
    \E p \in Procs :
        /\ pc[p] = "Reported"
        /\ ~Differs(p)
        /\ ~result[p].changed
        /\ UpdateCalls(p) = <<>>

\* C5: whenever the listResourceLimits query returned one record,
\* get_resource_limit returns it rather than failing, and a "limit" field of
\* the record comes back as the integer the platform reported.
C5_ReaderNormalizes ==
    \A p \in Procs :
        (listed[p] # Nil /\ Len(listed[p][1]) = 1)
        => /\ error[p].kind \notin {"TypeError", "LimitNotFoundError"}
           /\ "limit" \in DOMAIN listed[p][1][1]
              => /\ resource_limit[p] # Nil
                 /\ "limit" \in DOMAIN resource_limit[p]
                 /\ resource_limit[p].limit =
                        JsonNumber(StoredLimit(p), FALSE)

\* C6: a supplied domain, account or project name that the directory does
\* not know ends the invocation in Failed, naming it, and no remote call is
\* issued.
Unknown(prm) ==
    \/ prm.domain \notin {NoneVal, "customers"}
    \/ prm.account \notin {NoneVal, "moserre"}
    \/ prm.project \notin {NoneVal, "proj1"}

C6_ScopeFailure ==
    \A p \in Procs :
        (pc[p] \notin {"Idle", "Start"} /\ Unknown(params[p]))
        => /\ pc[p] = "Failed"
           /\ error[p].kind = "ScopeResolutionError"
           /\ error[p].name \in
                {params[p].domain, params[p].account, params[p].project}
                    \ {NoneVal}
           /\ calls[p] = <<>>
           /\ remote = remote0[p]

C6_Witness ==
    \E p \in Procs :
        /\ pc[p] = "Failed"
        /\ params[p].domain = "unknown-domain"
        /\ error[p].name = "unknown-domain"
        /\ calls[p] = <<>>

\* C7: when the listResourceLimits query returns no record, the invocation
\* fails with the not-found error; that read is its only remote call and
\* the store is unchanged.
C7_NotFound ==
    \A p \in Procs :
        (listed[p] # Nil /\ listed[p][1] = <<>>)
        => /\ pc[p] = "Failed"
           /\ error[p].kind = "LimitNotFoundError"
           /\ Len(calls[p]) = 1
           /\ calls[p][1].cmd = "listResourceLimits"
           /\ remote = remote0[p]

C7_Witness ==
    \E p \in Procs :
        /\ listed[p] = Some(<<>>)
        /\ pc[p] = "Failed"
        /\ error[p].kind = "LimitNotFoundError"

\* C8: the verdict is a change exactly when the desired limit, as an integer,
\* differs from the integer the platform holds, however the platform wrote
\* it; the scope fields and the resource type alone never make a change.
C8_ChangeDetection ==
    \A p \in Procs :
        pc[p] \in PostVerdict
        => /\ (verdict[p] # "Unchanged") <=> Differs(p)
           /\ result[p].changed <=> Differs(p)

C8_Witness ==
    \E p \in Procs :
        /\ pc[p] \in PostVerdict
        /\ verdict[p] = "Unchanged"
        /\ listed[p][1][1].max.t = "str"
        /\ params[p].account # NoneVal
        /\ Desired(p) = 10

\* C9: every resource type of the choice list maps to a code, the same type
\* to the same code in every invocation, and two types never to one code.
C9_TypeMapping ==
    \A p, q \in Procs :
        (pc[p] = "TypeMapped" /\ pc[q] = "TypeMapped")
        => /\ params[p].resource_type \in Choices
           /\ Len(args[p].resourcetype) = 1
           /\ (args[p].resourcetype = args[q].resourcetype)
              <=> (params[p].resource_type = params[q].resource_type)

C9_Witness ==
    \E p, q \in Procs :
        /\ pc[p] = "TypeMapped"
        /\ pc[q] = "TypeMapped"
        /\ params[p].resource_type = "template"
        /\ params[q].resource_type = "network"
        /\ args[p].resourcetype # args[q].resourcetype

\* C10: a reported result names the resource type as the caller gave it, and
\* its changed flag is true exactly when an updateResourceLimit call was
\* issued or, in check mode, has_changed found a difference.
C10_ReportedResult ==
    \A p \in Procs :
        pc[p] = "Reported"
        => /\ result[p].resource_type = params[p].resource_type
           /\ result[p].changed
              <=> \/ UpdateCalls(p) # <<>>
                  \/ (params[p].check_mode /\ verdict[p] = "WouldChange")

C10_Witness ==
    \E p \in Procs :
        /\ pc[p] = "Reported"
        /\ result[p].resource_type = "memory"
        /\ result[p].changed
        /\ UpdateCalls(p) # <<>>

\* C11: when check mode meets a difference, the record update_resource_limit
\* returns is the record the read fetched, so the reported limit is the
\* limit the platform held before and not the desired one.
C11_DryRunPriorState ==
    \A p \in Procs :
        (pc[p] \in PostVerdict /\ params[p].check_mode /\ Differs(p))
        => /\ resource_limit[p] = listed[p][1][1]
           /\ pc[p] = "Reported"
              => /\ result[p].changed
                 /\ result[p].limit \in
                      { JsonNumber(StoredLimit(p), b) : b \in BOOLEAN }
                 /\ result[p].limit \notin
                      { JsonNumber(Desired(p), b) : b \in BOOLEAN }

C11_Witness ==
    \E p \in Procs :
        /\ pc[p] = "Reported"
        /\ params[p].check_mode
        /\ params[p].limit = Nil
        /\ StoredLimit(p) = 10
        /\ result[p].changed
        /\ result[p].limit = JsonNumber(10, FALSE)

\* C12: an invocation given no limit reconciles towards -1: outside check
\* mode it issues one update with max = -1 when the stored limit is not -1,
\* and no update when the stored limit is -1.
C12_DefaultUnlimited ==
    \A p \in Procs :
        (pc[p] \in PostVerdict /\ params[p].limit = Nil)
        => /\ (StoredLimit(p) # -1 /\ ~params[p].check_mode)
              => /\ Len(UpdateCalls(p)) = 1
                 /\ UpdateCalls(p)[1].args.max = -1
                 /\ remote[ReadKey(p)] = Some(-1)
           /\ StoredLimit(p) = -1
              => /\ UpdateCalls(p) = <<>>
                 /\ ~result[p].changed

C12_Witness ==
    \E p \in Procs :
        /\ pc[p] = "Reported"
        /\ params[p].limit = Nil
        /\ ~params[p].check_mode
        /\ StoredLimit(p) = 10
        /\ Len(UpdateCalls(p)) = 1
        /\ remote[ReadKey(p)] = Some(-1)

\* ------------------------------------------------------------ two callers
\* Two invocations for the same tuple run side by side: each was constructed
\* with its own desired limit and the platform interleaves their calls.
RaceParams ==
    { prm \in ParamsOf({"instance"}) :
        /\ prm.account = NoneVal
        /\ prm.project = NoneVal
        /\ prm.domain \in {"customers", "unknown-domain"} }

InitRace ==
    /\ remote \in InitRemote
    /\ params \in [Procs -> RaceParams]
    /\ pc = [p \in Procs |-> "Start"]
    /\ args = [p \in Procs |-> Nil]
    /\ listed = [p \in Procs |-> Nil]
    /\ resource_limit = [p \in Procs |-> Nil]
    /\ verdict = [p \in Procs |-> "none"]
    /\ result = [p \in Procs |-> [changed |-> FALSE]]
    /\ calls = [p \in Procs |-> <<>>]
    /\ error = [p \in Procs |-> NoError]
    /\ prev = [p \in Procs |-> Nil]
    /\ invocations = [p \in Procs |-> 1]
    /\ remote0 = [p \in Procs |-> remote]

NextRace ==
    \E p \in Procs :
        \/ ResolveScope(p)
        \/ MapType(p)
        \/ FetchLimit(p)
        \/ Reconcile(p)
        \/ Report(p)

SpecRace == InitRace /\ [][NextRace]_vars

\* The limit an invocation read, as an integer.
FetchedLimit(p) ==
    LET m == listed[p][1][1].max
    IN IF m.t = "int" THEN m.v ELSE CHOOSE n \in -2..10 : IntStr(n) = m.s

Wrote(p) == verdict[p] = "Changed" /\ pc[p] \in {"Changed", "Reported"}

C13_State ==
    \A p \in Procs :
        /\ (pc[p] \in PostVerdict /\ ~params[p].check_mode
                /\ FetchedLimit(p) # Desired(p))
           => Wrote(p)
        /\ Wrote(p)
           => /\ Len(ListCalls(p)) = 1
              /\ Len(UpdateCalls(p)) = 1
              /\ UpdateCalls(p)[1].args.max = Desired(p)
              /\ Key(UpdateCalls(p)[1].args) = ReadKey(p)

C13_Step ==
    /\ \A p \in Procs :
         (pc[p] = "CurrentStateFetched" /\ pc'[p] = "Changed")
         => remote' = [remote EXCEPT ![ReadKey(p)] = Some(Desired(p))]
    /\ remote' # remote
       => \E p \in Procs : pc[p] = "CurrentStateFetched" /\ pc'[p] = "Changed"

\* C13: an invocation outside check mode whose read differs from its desired
\* limit writes that limit with one updateResourceLimit call and no second
\* read, whatever the store holds by then; every write sets the tuple to the
\* writer's own desired limit, so of two interleaved writers the last one's
\* limit stands.
C13_StaleWrite == []C13_State /\ [][C13_Step]_vars

C13_Witness ==
    \E p, q \in Procs :
        /\ p # q
        /\ Wrote(p) /\ pc[p] = "Reported"
        /\ Wrote(q) /\ pc[q] = "Reported"
        /\ ReadKey(p) = ReadKey(q)
        /\ Desired(p) # Desired(q)
        /\ FetchedLimit(p) = FetchedLimit(q)
        /\ remote[ReadKey(p)] = Some(Desired(q))

\* The stages before the listResourceLimits query.
PreRead == {"Idle", "Start", "ScopeResolved", "TypeMapped"}
ScopeFailed(p) == pc[p] = "Failed" /\ error[p].kind = "ScopeResolutionError"

\* C14 as claimed: every invocation that ended issued exactly one
\* listResourceLimits read, before any write, and at most one write.
C14_Original ==
    \A p \in Procs :
        pc[p] \in Terminal
        => /\ Len(ListCalls(p)) = 1
           /\ Len(UpdateCalls(p)) <= 1
           /\ calls[p][1].cmd = "listResourceLimits"

C14_State ==
    \A p \in Procs :
        /\ Len(ListCalls(p)) <= 1
        /\ Len(UpdateCalls(p)) <= 1
        /\ calls[p] # <<>> => calls[p][1].cmd = "listResourceLimits"
        /\ ScopeFailed(p) => calls[p] = <<>>
        /\ (pc[p] \notin PreRead /\ ~ScopeFailed(p)) => Len(ListCalls(p)) = 1

C14_Step ==
    \A p \in Procs :
        (pc[p] = "Failed" /\ invocations'[p] = invocations[p])
        => (calls'[p] = calls[p] /\ pc'[p] = "Failed")

\* C14, amended: an invocation issues at most one listResourceLimits read,
\* exactly one once its scope resolved and none when scope resolution
\* failed; the read comes before any write; at most one write is issued;
\* a failed invocation issues no further call.
C14_CallOrder == []C14_State /\ [][C14_Step]_vars

C14_Witness ==
    \E p \in Procs :
        /\ pc[p] = "Failed"
        /\ error[p].kind = "TransportError"
        /\ Len(calls[p]) = 2
        /\ calls[p][1].cmd = "listResourceLimits"
        /\ calls[p][2].cmd = "updateResourceLimit"

\* ---------------------------------------------------------------- fairness
\* The module is synchronous, single-threaded code: an invocation that has
\* started keeps taking its next step until fail_json or exit_json.
Run(p) ==
    \/ ResolveScope(p)
    \/ MapType(p)
    \/ FetchLimit(p)
    \/ Reconcile(p)
    \/ Report(p)

\* The caller was constructed with some parameters, runs the module and may
\* run it again with the same parameters.
InitFair ==
    /\ remote \in InitRemote
    /\ \E prm \in Params :
         params = [p \in Procs |-> IF p \in Invokers THEN prm ELSE Nil]
    /\ pc = [p \in Procs |-> IF p \in Invokers THEN "Start" ELSE "Idle"]
    /\ args = [p \in Procs |-> Nil]
    /\ listed = [p \in Procs |-> Nil]
    /\ resource_limit = [p \in Procs |-> Nil]
    /\ verdict = [p \in Procs |-> "none"]
    /\ result = [p \in Procs |-> [changed |-> FALSE]]
    /\ calls = [p \in Procs |-> <<>>]
    /\ error = [p \in Procs |-> NoError]
    /\ prev = [p \in Procs |-> Nil]
    /\ invocations = [p \in Procs |-> IF p \in Invokers THEN 1 ELSE 0]
    /\ remote0 = [p \in Procs |-> remote]

NextFair == \E p \in Invokers : Run(p) \/ Reinvoke(p)

SpecFair ==
    InitFair /\ [][NextFair]_vars /\ \A p \in Invokers : WF_vars(Run(p))

\* The stage order of one invocation, and the start of the next one.
StageOrder ==
    { <<"Idle", "Start">>, <<"Reported", "Start">>, <<"Failed", "Start">>,
      <<"Start", "ScopeResolved">>, <<"Start", "Failed">>,
      <<"ScopeResolved", "TypeMapped">>,
      <<"TypeMapped", "CurrentStateFetched">>, <<"TypeMapped", "Failed">>,
      <<"CurrentStateFetched", "Unchanged">>,
      <<"CurrentStateFetched", "WouldChange">>,
      <<"CurrentStateFetched", "Changed">>,
      <<"CurrentStateFetched", "Failed">>,
      <<"Unchanged", "Reported">>, <<"WouldChange", "Reported">>,
      <<"Changed", "Reported">> }

C15_State ==
    \A p \in Procs :
        /\ pc[p] = "Failed"
           => /\ error[p].kind # "none"
              /\ DOMAIN result[p] = {"changed"}
        /\ pc[p] = "Reported"
           => /\ error[p].kind = "none"
              /\ verdict[p] \in {"Unchanged", "WouldChange", "Changed"}
              /\ {"limit", "account", "changed", "resource_type"}
                    \subseteq DOMAIN result[p]

C15_Step ==
    \A p \in Procs :
        /\ pc'[p] # pc[p] => <<pc[p], pc'[p]>> \in StageOrder
        /\ (pc[p] \in Terminal /\ pc'[p] # pc[p])
           => invocations'[p] = invocations[p] + 1
        /\ (pc[p] = "Failed" /\ pc'[p] = "Failed")
           => (result'[p] = result[p] /\ calls'[p] = calls[p])

\* C15: an invocation that started ends in Reported or in Failed, through
\* the stages in their order; a failed one runs no later stage and holds no
\* reported record, only the error.
C15_Terminates ==
    /\ []C15_State
    /\ [][C15_Step]_vars
    /\ \A p \in Procs : (pc[p] = "Start") ~> (pc[p] \in Terminal)

C15_Witness ==
    \E p \in Procs :
        /\ pc[p] = "Failed"
        /\ error[p].kind = "LimitNotFoundError"
        /\ invocations[p] = 2
        /\ prev[p] # Nil

\* C16: no updateResourceLimit call carries a max below -1.
C16_ValidLimits ==
    \A p \in Procs :
        \A i \in 1..Len(calls[p]) :
            calls[p][i].cmd = "updateResourceLimit"
            => calls[p][i].args.max >= -1

\* C17: the updateResourceLimit call of an invocation names the account,
\* domain id, project id and resource-type code of its listResourceLimits
\* read, and the limit of every other tuple stays what it was: a step changes
\* the store only at the tuple the writing invocation read.
C17_State ==
    \A p \in Procs :
        /\ UpdateCalls(p) # <<>>
           => LET r == calls[p][1].args
                  u == UpdateCalls(p)[1].args
              IN /\ u.account = r.account
                 /\ u.domainid = r.domainid
                 /\ u.projectid = r.projectid
                 /\ u.resourcetype = r.resourcetype
        /\ pc[p] # "Idle"
           => \A t \in Tuples :
                (calls[p] = <<>> \/ t # ReadKey(p))
                => remote[t] = remote0[p][t]

C17_Step ==
    \A t \in Tuples :
        remote'[t] # remote[t]
        => \E p \in Procs :
             /\ pc[p] = "CurrentStateFetched"
             /\ pc'[p] = "Changed"
             /\ t = ReadKey(p)

C17_SingleTarget == []C17_State /\ [][C17_Step]_vars

C17_Witness ==
    \E p \in Procs :
        /\ pc[p] = "Reported"
        /\ invocations[p] = 2
        /\ UpdateCalls(p) # <<>>
        /\ remote[ReadKey(p)] # remote0[p][ReadKey(p)]
        /\ \E t \in Tuples :
             /\ t # ReadKey(p)
             /\ t[1] = ReadKey(p)[1]
             /\ remote0[p][t] \notin {Nil, remote0[p][ReadKey(p)]}
             /\ remote[t] = remote0[p][t]
=============================================================================
